---- MODULE Spec2Model ----
(***************************************************************************)
(* Document ingestion pipeline of RediSearch (src/document.c): one pooled  *)
(* RSAddDocumentCtx followed through successive lifetimes                  *)
(* (acquire, attach, submit, preprocess, indexer, completion, release).    *)
(***************************************************************************)
EXTENDS Integers, Sequences, FiniteSets, TLC

\* ------------------------------------------------------------------------
\* Bounds and program constants
\* ------------------------------------------------------------------------
MaxFields == 2

\* Contexts the pool allocator hands out before it refuses (mempool_get
\* allocates without limit)
MaxContexts == 3

SELF_EXEC_THRESHOLD == 1024

NULL == "NULL"

\* ------------------------------------------------------------------------
\* The index schema (IndexSpec) the pipeline reads.  fs->index is the
\* position in the sequence, sortIdx the sort-vector slot (-1: none).
\* ------------------------------------------------------------------------
SpecFields ==
  << [name |-> "title", type |-> "FULLTEXT", sortable |-> TRUE,  indexable |-> TRUE,  sortIdx |-> 0],
     [name |-> "price", type |-> "NUMERIC",  sortable |-> TRUE,  indexable |-> TRUE,  sortIdx |-> 1],
     [name |-> "loc",   type |-> "GEO",      sortable |-> FALSE, indexable |-> TRUE,  sortIdx |-> -1],
     [name |-> "tags",  type |-> "TAG",      sortable |-> TRUE,  indexable |-> TRUE,  sortIdx |-> 2],
     [name |-> "rank",  type |-> "NUMERIC",  sortable |-> TRUE,  indexable |-> FALSE, sortIdx |-> 3],
     [name |-> "pin",   type |-> "GEO",      sortable |-> TRUE,  indexable |-> FALSE, sortIdx |-> 4] >>

\* sp->flags & Index_StoreByteOffsets
StoreByteOffsets == TRUE

SpecNames == { SpecFields[k].name : k \in 1..Len(SpecFields) }

\* IndexSpec_GetField: ordinal of the schema field called name, 0 when absent
IndexSpec_GetField(name) ==
  IF name \in SpecNames
  THEN CHOOSE k \in 1..Len(SpecFields) : SpecFields[k].name = name
  ELSE 0

FieldSpec_IsSortable(fs) == fs.sortable

FieldSpec_IsIndexable(fs) == fs.indexable

\* IndexSpec_GetFieldSortingIndex: sort-vector slot of a field, -1 when none
IndexSpec_GetFieldSortingIndex(name) ==
  LET k == IndexSpec_GetField(name)
  IN IF k = 0 \/ ~SpecFields[k].sortable THEN -1 ELSE SpecFields[k].sortIdx

\* ------------------------------------------------------------------------
\* Raw field values (RedisModuleString).  Each value has a byte length, may
\* or may not parse as a double, and may or may not hold a ' ' or ','.
\* "L1021" is a 1021-byte word; "1_2" is "1,2" after the geo preprocessor
\* replaced the separator by a NUL byte.
\* ------------------------------------------------------------------------
RawValues == {"12", "abc", "1,2", "L1021", "1_2"}

\* RedisModule_StringPtrLen(s, &n)
StringLen(v) ==
  CASE v = "12" -> 2
    [] v = "abc" -> 3
    [] v = "1,2" -> 3
    [] v = "1_2" -> 3
    [] v = "L1021" -> 1021
    [] OTHER -> 0

\* RedisModule_StringToDouble(s, &d) == REDISMODULE_OK
StringToDoubleOk(v) == v = "12"

\* strpbrk(c, " ,") != NULL
HasSeparator(v) == v = "1,2"

\* the buffer after *pos = '\0'
SplitAtSeparator(v) == IF v = "1,2" THEN "1_2" ELSE v

\* The (name, value) pairs a caller may put into a document
FieldChoices ==
  { [name |-> "title", text |-> "abc"],   [name |-> "title", text |-> "L1021"],
    [name |-> "price", text |-> "12"],    [name |-> "price", text |-> "abc"],
    [name |-> "loc",   text |-> "1,2"],   [name |-> "loc",   text |-> "abc"],
    [name |-> "tags",  text |-> "abc"],
    [name |-> "rank",  text |-> "12"],    [name |-> "rank",  text |-> "abc"],
    [name |-> "pin",   text |-> "1,2"],
    [name |-> "x",     text |-> "L1021"] }

\* Documents handed to NewAddDocumentCtx: up to MaxFields fields
FieldSeqs(n) == UNION { [1..k -> FieldChoices] : k \in 0..n }

Documents == FieldSeqs(MaxFields)

\* ------------------------------------------------------------------------
\* QueryError: the status object holds the first error code set on it
\* ------------------------------------------------------------------------
QueryError_SetError(status, code) == IF status # "OK" THEN status ELSE code

QueryError_SetCode(status, code) == IF status # "OK" THEN status ELSE code

QueryError_ClearError(status) == "OK"

\* ------------------------------------------------------------------------
\* RSAddDocumentCtx.  fspecs[i] is the ordinal of the resolved schema field
\* of document field i (0: name == NULL, -1: slot not written since the
\* arrays were sized); cap is the allocated length of fspecs and fdatas.
\* ------------------------------------------------------------------------
NoSV == [alloc |-> FALSE, slots |-> {}]

NoFwIdx == [alloc |-> FALSE, fields |-> {}]

\* allocDocumentContext: calloc(1, sizeof(*aCtx))
allocDocumentContext ==
  [ doc         |-> [numFields |-> 0, fields |-> << >>],
    cap         |-> 0,
    fspecs      |-> << >>,
    fdatas      |-> << >>,
    stateFlags  |-> {},
    options     |-> {},
    status      |-> "OK",
    sv          |-> NoSV,
    byteOffsets |-> FALSE,
    fwIdx       |-> NoFwIdx,
    tokenizer   |-> FALSE,
    totalTokens |-> 0,
    client      |-> NULL,
    donecb      |-> FALSE ]

\* NewSortingVector(sp->sortables->len)
NewSortingVector == [alloc |-> TRUE, slots |-> {}]

\* RSSortingVector_Put(sv, idx, ...)
RSSortingVector_Put(sv, idx) == [sv EXCEPT !.slots = @ \cup {idx}]

\* document.c:60-91, one iteration of the attachment loop and the rest of it
RECURSIVE SetDocument_Fields(_, _, _)
SetDocument_Fields(a, i, acc) ==
  IF i > a.doc.numFields
  THEN [a |-> a, acc |-> acc, rv |-> 0]
  ELSE
    LET f == a.doc.fields[i]
        k == IndexSpec_GetField(f.name)
    IN IF k # 0 /\ f.text # NULL
       THEN IF k \in acc.dedupe
            THEN [a   |-> [a EXCEPT !.fspecs[i] = k,
                                    !.status = QueryError_SetError(@, "EDUPFIELD")],
                  acc |-> acc,
                  rv  |-> -1]
            ELSE LET fs == SpecFields[k]
                     a1 == [a EXCEPT !.fspecs[i] = k,
                                     !.stateFlags = IF FieldSpec_IsSortable(fs)
                                                    THEN @ \cup {"SORTABLES"} ELSE @]
                     isText  == FieldSpec_IsIndexable(fs) /\ fs.type = "FULLTEXT"
                     isOther == FieldSpec_IsIndexable(fs) /\ fs.type # "FULLTEXT"
                     acc1 == [dedupe         |-> acc.dedupe \cup {k},
                              numIndexable   |-> acc.numIndexable + (IF isText THEN 1 ELSE 0),
                              hasTextFields  |-> acc.hasTextFields \/ isText,
                              hasOtherFields |-> acc.hasOtherFields \/ isOther]
                 IN SetDocument_Fields(a1, i + 1, acc1)
       ELSE SetDocument_Fields([a EXCEPT !.fspecs[i] = 0], i + 1, acc)

\* The byte offsets decided by any indexable field instead of numIndexable
SetDocument_Summary_AnyIndexable(r) ==
  IF r.rv # 0
  THEN [a |-> r.a, rv |-> -1]
  ELSE [a |-> [r.a EXCEPT
                 !.stateFlags =
                    @ \cup (IF r.acc.hasTextFields \/ r.acc.hasOtherFields
                            THEN {"INDEXABLES"} ELSE {})
                      \cup (IF ~r.acc.hasTextFields THEN {"TEXTINDEXED"} ELSE {})
                      \cup (IF ~r.acc.hasOtherFields THEN {"OTHERINDEXED"} ELSE {}),
                 !.sv = IF "SORTABLES" \in r.a.stateFlags /\ ~r.a.sv.alloc
                        THEN NewSortingVector ELSE @,
                 !.byteOffsets =
                    IF "NOSAVE" \notin r.a.options
                       /\ (r.acc.hasTextFields \/ r.acc.hasOtherFields)
                       /\ StoreByteOffsets
                    THEN TRUE ELSE @],
        rv |-> 0]

\* document.c:93-115: the summary flags, the sort vector and the byte
\* offsets after the loop; r is what the loop returned
SetDocument_Summary(r) ==
  IF r.rv # 0
  THEN [a |-> r.a, rv |-> -1]
  ELSE [a |-> [r.a EXCEPT
                 !.stateFlags =
                    @ \cup (IF r.acc.hasTextFields \/ r.acc.hasOtherFields
                            THEN {"INDEXABLES"} ELSE {})
                      \cup (IF ~r.acc.hasTextFields THEN {"TEXTINDEXED"} ELSE {})
                      \cup (IF ~r.acc.hasOtherFields THEN {"OTHERINDEXED"} ELSE {}),
                 !.sv = IF "SORTABLES" \in r.a.stateFlags /\ ~r.a.sv.alloc
                        THEN NewSortingVector ELSE @,
                 !.byteOffsets =
                    IF "NOSAVE" \notin r.a.options /\ r.acc.numIndexable > 0
                       /\ StoreByteOffsets
                    THEN TRUE ELSE @],
        rv |-> 0]

\* AddDocumentCtx_SetDocument(aCtx, sp, base, oldFieldCount)
AddDocumentCtx_SetDocument(a, base, oldFieldCount) ==
  SetDocument_Summary(
    SetDocument_Fields(
      [a EXCEPT !.doc = [numFields |-> Len(base.fields), fields |-> base.fields],
                !.cap = IF oldFieldCount < Len(base.fields) THEN Len(base.fields) ELSE @,
                !.fspecs = [j \in 1..Len(base.fields) |-> -1],
                !.fdatas = [j \in 1..Len(base.fields) |-> "none"]],
      1,
      [dedupe |-> {}, numIndexable |-> 0,
       hasTextFields |-> FALSE, hasOtherFields |-> FALSE]))

\* NewAddDocumentCtx without the reset of stateFlags
NewAddDocumentCtx_Attach_KeepFlags(a, base) ==
  AddDocumentCtx_SetDocument(
    [a EXCEPT !.status = QueryError_ClearError(@),
              !.totalTokens = 0,
              !.client = NULL],
    base, a.doc.numFields)

\* NewAddDocumentCtx up to the attachment (document.c:125-139): the fields
\* reset on a context taken from the pool, then AddDocumentCtx_SetDocument
\* with the previous document's field count as oldFieldCount
NewAddDocumentCtx_Attach(a, base) ==
  AddDocumentCtx_SetDocument(
    [a EXCEPT !.stateFlags = {},
              !.status = QueryError_ClearError(@),
              !.totalTokens = 0,
              !.client = NULL],
    base, a.doc.numFields)

\* NewAddDocumentCtx after a successful attachment (document.c:146-165)
NewAddDocumentCtx_Finish(a) ==
  [a EXCEPT !.fwIdx = [alloc |-> TRUE, fields |-> {}],
            !.tokenizer = TRUE]

\* ------------------------------------------------------------------------
\* Properties of a document, read off its fields and the schema
\* ------------------------------------------------------------------------
\* Two fields of the document resolve to the same schema field
NamesFieldTwice(fields) ==
  \E i \in 1..Len(fields) : \E j \in 1..Len(fields) :
     /\ i < j
     /\ fields[i].name \in SpecNames
     /\ fields[i].name = fields[j].name

\* Some field of the document resolves to an indexable schema field
HasIndexableField(fields) ==
  \E i \in 1..Len(fields) : \E k \in 1..Len(SpecFields) :
     SpecFields[k].name = fields[i].name /\ SpecFields[k].indexable

\* Some field of the document resolves to an indexable full-text field
HasIndexableText(fields) ==
  \E i \in 1..Len(fields) : \E k \in 1..Len(SpecFields) :
     /\ SpecFields[k].name = fields[i].name
     /\ SpecFields[k].indexable /\ SpecFields[k].type = "FULLTEXT"

\* Some field of the document resolves to a sortable schema field
HasSortableField(fields) ==
  \E i \in 1..Len(fields) : \E k \in 1..Len(SpecFields) :
     SpecFields[k].name = fields[i].name /\ SpecFields[k].sortable

\* The state flags AddDocumentCtx_SetDocument derives from a document alone
DocumentFlags(fields) ==
  (IF HasSortableField(fields) THEN {"SORTABLES"} ELSE {})
    \cup (IF HasIndexableField(fields) THEN {"INDEXABLES"} ELSE {})
    \cup (IF ~HasIndexableText(fields) THEN {"TEXTINDEXED"} ELSE {})
    \cup (IF \E i \in 1..Len(fields) : \E k \in 1..Len(SpecFields) :
               /\ SpecFields[k].name = fields[i].name
               /\ SpecFields[k].indexable /\ SpecFields[k].type # "FULLTEXT"
          THEN {} ELSE {"OTHERINDEXED"})

NoField == [name |-> "", text |-> ""]

\* The sum of the byte lengths of the values of the fields that resolve to
\* a full-text or tag field of the schema
RECURSIVE TextAndTagBytes(_)
TextAndTagBytes(fields) ==
  IF fields = << >> THEN 0
  ELSE LET f == Head(fields)
           counts == \E k \in 1..Len(SpecFields) :
                        /\ SpecFields[k].name = f.name
                        /\ SpecFields[k].type \in {"FULLTEXT", "TAG"}
       IN (IF counts THEN StringLen(f.text) ELSE 0) + TextAndTagBytes(Tail(fields))

\* ------------------------------------------------------------------------
\* Observations of one context lifetime (from NewAddDocumentCtx to the next
\* NewAddDocumentCtx): what was called, by which thread, and what the
\* completion callback saw.
\* ------------------------------------------------------------------------
NoMd == [score |-> "none", payload |-> FALSE, sortVector |-> NoSV]

NoObs ==
  [ rejectedDup |-> FALSE,    \* the document New failed to attach named a
                              \*   schema field twice
    newRv      |-> "none",    \* "ctx" or "NULL": what New returned
    newStatus  |-> "OK",      \* *status as written by New
    submitted  |-> FALSE,
    partial    |-> FALSE,     \* DOCUMENT_ADD_PARTIAL was among the options
    indexable  |-> FALSE,     \* the attached document had an indexable field
    noblock    |-> FALSE,     \* ACTX_F_NOBLOCK as set by the caller
    branch     |-> "none",    \* "full", "reindex" or "meta"
    toLoad     |-> {},        \* names requested from Redis_LoadDocumentEx
    loadDone   |-> FALSE,     \* Redis_LoadDocumentEx returned OK
    reattached |-> FALSE,     \* SetDocument ran over the reloaded document
    atSched    |-> FALSE,     \* the scheduling decision was reached
    schedBytes |-> 0,         \* bytes of the attached full-text and tag values
                              \*   at the scheduling decision
    blocked    |-> FALSE,     \* RedisModule_BlockClient was called
    scheduled  |-> FALSE,     \* ConcurrentSearch_ThreadPoolRun was called
    inlineRun  |-> FALSE,     \* Document_AddToIndexes ran on the caller
    ppRan      |-> << >>,     \* field positions whose preprocessor ran
    ppFail     |-> 0,         \* position of the field whose preprocessor failed
    ppFailField |-> NoField,  \*   and that field
    ppBefore   |-> FALSE,     \* a preprocessor or Indexer_Add ran before the reload
    indexerAdd |-> 0,         \* calls of Indexer_Add
    addAllDone |-> TRUE,      \* every call of Indexer_Add followed a full pass
    indexFail  |-> "none",    \* "add": Indexer_Add refused the context;
                              \*   "indexer": the indexer reported an error
    metaFail   |-> "none",    \* why the metadata-only update bailed out:
                              \*   "nodoc", "nomd", "dup", "parse" or "type"
    unblocks   |-> 0,         \* calls of RedisModule_UnblockClient
    cbCount    |-> 0,         \* invocations of donecb
    cbStatus   |-> "none",    \* aCtx->status as the callback saw it
    cbSv       |-> NoSV,      \* aCtx->sv as the callback saw it
    cbThread   |-> "none",    \* the thread the callback ran on
    relCount   |-> 0,         \* calls of mempool_release
    relNoCb    |-> FALSE,     \* a release that no callback preceded
    relThread  |-> "none",
    mdBefore   |-> NoMd,      \* the document metadata before / after the
    mdAfter    |-> NoMd,      \*   metadata-only update
    uaf        |-> FALSE ]    \* a thread touched a context it does not own

\* A thread reads or writes the context: legal only while the context is
\* out of the pool and no other thread holds it
Touch(w, thr) ==
  [w EXCEPT !.o.uaf = @ \/ w.pool > 0 \/ (w.holders \ {thr}) # {}]

\* mempool_release(actxPool_g, aCtx).  The contents of the document fields
\* and of the scratch arrays are dead from here on: every later read follows
\* a write by AddDocumentCtx_SetDocument or a preprocessor.
mempool_release(w, thr) ==
  [w EXCEPT !.pool = @ + 1,
            !.holders = @ \ {thr},
            !.a.doc.fields = << >>,
            !.a.fspecs = << >>,
            !.a.fdatas = << >>,
            !.o.relCount = @ + 1,
            !.o.relNoCb = @ \/ w.o.cbCount = 0,
            !.o.relThread = thr]

\* Document_FreeDetached: frees the field values, leaves doc.numFields
Document_FreeDetached(a) == [a EXCEPT !.doc.fields = << >>]

\* AddDocumentCtx_Free
AddDocumentCtx_Free(w, thr) ==
  LET a1 == Document_FreeDetached(w.a)
      a2 == [a1 EXCEPT !.sv = NoSV,
                       !.byteOffsets = FALSE,
                       !.tokenizer = FALSE,
                       !.status = QueryError_ClearError(@)]
  IN CHOOSE released \in
       { mempool_release(w1, thr) : w1 \in { [w EXCEPT !.a = a2] } } : TRUE

\* aCtx->donecb(aCtx, ctx, NULL)
InvokeDoneCb(w, thr) ==
  [w EXCEPT !.o.cbCount = @ + 1,
            !.o.cbStatus = w.a.status,
            !.o.cbSv = w.a.sv,
            !.o.cbThread = thr]

\* doReplyFinish without the call of donecb
doReplyFinish_NoCallback(w, thr) ==
  AddDocumentCtx_Free(Touch(w, thr), thr)

\* doReplyFinish
doReplyFinish(w, thr) ==
  CHOOSE freed \in
    { AddDocumentCtx_Free(w1, thr) :
        w1 \in { IF w0.a.donecb THEN InvokeDoneCb(w0, thr) ELSE w0 :
                   w0 \in { Touch(w, thr) } } } : TRUE

\* RedisModule_UnblockClient(aCtx->client.bc, aCtx): the reply callback will
\* run on the main thread with aCtx as its private data
RedisModule_UnblockClient(w, thr) ==
  [w EXCEPT !.holders = (@ \ {thr}) \cup {"reply"},
            !.o.unblocks = @ + 1]

\* AddDocumentCtx_Finish completing inline whatever the flags say
AddDocumentCtx_Finish_AlwaysInline(w, thr) ==
  CHOOSE finished \in
    { doReplyFinish(w0, thr) : w0 \in { Touch(w, thr) } } : TRUE

\* AddDocumentCtx_Finish
AddDocumentCtx_Finish(w, thr) ==
  CHOOSE finished \in
    { IF "NOBLOCK" \in w0.a.stateFlags
      THEN doReplyFinish(w0, thr)
      ELSE RedisModule_UnblockClient(w0, thr) : w0 \in { Touch(w, thr) } } : TRUE

\* ------------------------------------------------------------------------
\* Field preprocessors: (aCtx, field i) -> [a, rv]
\* ------------------------------------------------------------------------
fulltextPreprocessor(a, i) ==
  LET fs == SpecFields[a.fspecs[i]]
      a1 == IF FieldSpec_IsSortable(fs)
            THEN [a EXCEPT !.sv = RSSortingVector_Put(@, fs.sortIdx)] ELSE a
      a2 == IF FieldSpec_IsIndexable(fs)
            THEN [a1 EXCEPT !.fwIdx.fields = @ \cup {a.fspecs[i]},
                            !.totalTokens = 1]
            ELSE a1
  IN [a |-> a2, rv |-> 0]

\* numericPreprocessor reporting the generic code for a value that does not parse
numericPreprocessor_Generic(a, i) ==
  LET fs == SpecFields[a.fspecs[i]]
  IN IF ~StringToDoubleOk(a.doc.fields[i].text)
     THEN [a |-> [a EXCEPT !.status = QueryError_SetCode(@, "EGENERIC")], rv |-> -1]
     ELSE [a |-> [a EXCEPT !.fdatas[i] = "numeric",
                           !.sv = IF FieldSpec_IsSortable(fs)
                                  THEN RSSortingVector_Put(@, fs.sortIdx) ELSE @],
           rv |-> 0]

\* numericPreprocessor copying the value to the sort vector before parsing it
numericPreprocessor_PutFirst(a, i) ==
  LET fs == SpecFields[a.fspecs[i]]
      a1 == [a EXCEPT !.sv = IF FieldSpec_IsSortable(fs)
                             THEN RSSortingVector_Put(@, fs.sortIdx) ELSE @]
  IN IF ~StringToDoubleOk(a.doc.fields[i].text)
     THEN [a |-> [a1 EXCEPT !.status = QueryError_SetCode(@, "EPARSEARGS")], rv |-> -1]
     ELSE [a |-> [a1 EXCEPT !.fdatas[i] = "numeric"], rv |-> 0]

numericPreprocessor(a, i) ==
  LET fs == SpecFields[a.fspecs[i]]
  IN IF ~StringToDoubleOk(a.doc.fields[i].text)
     THEN [a |-> [a EXCEPT !.status = QueryError_SetCode(@, "EPARSEARGS")], rv |-> -1]
     ELSE [a |-> [a EXCEPT !.fdatas[i] = "numeric",
                           !.sv = IF FieldSpec_IsSortable(fs)
                                  THEN RSSortingVector_Put(@, fs.sortIdx) ELSE @],
           rv |-> 0]

\* geoPreprocessor copying a sortable value to the sort vector
geoPreprocessor_Sorts(a, i) ==
  IF ~HasSeparator(a.doc.fields[i].text)
  THEN [a |-> [a EXCEPT !.status = QueryError_SetCode(@, "EGEOFORMAT")], rv |-> -1]
  ELSE [a |-> [a EXCEPT !.doc.fields[i].text = SplitAtSeparator(@),
                        !.fdatas[i] = "geo",
                        !.sv = IF FieldSpec_IsSortable(SpecFields[a.fspecs[i]])
                               THEN RSSortingVector_Put(@, SpecFields[a.fspecs[i]].sortIdx)
                               ELSE @],
        rv |-> 0]

geoPreprocessor(a, i) ==
  IF ~HasSeparator(a.doc.fields[i].text)
  THEN [a |-> [a EXCEPT !.status = QueryError_SetCode(@, "EGEOFORMAT")], rv |-> -1]
  ELSE [a |-> [a EXCEPT !.doc.fields[i].text = SplitAtSeparator(@),
                        !.fdatas[i] = "geo"],
        rv |-> 0]

\* TagIndex_Preprocess: the tag list of a value, none for an empty value
TagIndex_Preprocess(v) == IF StringLen(v) = 0 THEN "notags" ELSE "tags"

tagPreprocessor(a, i) ==
  LET fs   == SpecFields[a.fspecs[i]]
      tags == TagIndex_Preprocess(a.doc.fields[i].text)
      a1   == [a EXCEPT !.fdatas[i] = tags]
  IN IF tags = "notags"
     THEN [a |-> a1, rv |-> 0]
     ELSE [a |-> [a1 EXCEPT !.sv = IF FieldSpec_IsSortable(fs)
                                   THEN RSSortingVector_Put(@, fs.sortIdx) ELSE @],
           rv |-> 0]

\* GetIndexPreprocessor
GetIndexPreprocessor(ft) ==
  CASE ft = "FULLTEXT" -> "fulltextPreprocessor"
    [] ft = "NUMERIC"  -> "numericPreprocessor"
    [] ft = "GEO"      -> "geoPreprocessor"
    [] ft = "TAG"      -> "tagPreprocessor"
    [] OTHER           -> NULL

\* pp(aCtx, &doc->fields[i], fs, fdata, &aCtx->status)
CallPreprocessor(pp, a, i) ==
  CASE pp = "fulltextPreprocessor" -> fulltextPreprocessor(a, i)
    [] pp = "numericPreprocessor"  -> numericPreprocessor(a, i)
    [] pp = "geoPreprocessor"      -> geoPreprocessor(a, i)
    [] pp = "tagPreprocessor"      -> tagPreprocessor(a, i)

\* The loop of Document_AddToIndexes (document.c:501-519) from field i on;
\* ran collects the positions whose preprocessor was called
RECURSIVE AddToIndexes_Fields(_, _, _)
AddToIndexes_Fields(a, i, ran) ==
  IF i > a.doc.numFields
  THEN [a |-> a, rv |-> 0, ran |-> ran, failAt |-> 0]
  ELSE
    LET k == a.fspecs[i]
    IN IF k <= 0
       THEN AddToIndexes_Fields(a, i + 1, ran)
       ELSE LET pp == GetIndexPreprocessor(SpecFields[k].type)
            IN IF pp = NULL
               THEN AddToIndexes_Fields(a, i + 1, ran)
               ELSE CHOOSE rest \in
                      { IF r.rv # 0
                        THEN [a |-> r.a, rv |-> -1, ran |-> Append(ran, i), failAt |-> i]
                        ELSE AddToIndexes_Fields(r.a, i + 1, Append(ran, i)) :
                        r \in { CallPreprocessor(pp, a, i) } } : TRUE

\* The resolved fields of the attached document
ResolvedPositions(a) == { i \in 1..a.doc.numFields : a.fspecs[i] > 0 }

\* Document_AddToIndexes finishing the context whatever ourRv is
AddToIndexes_Submit_AlwaysFinish(w, r, thr, addOk) ==
  AddDocumentCtx_Finish(
    [w EXCEPT !.a = [r.a EXCEPT !.status = IF r.rv = 0 /\ addOk THEN @
                                           ELSE QueryError_SetCode(@, "EGENERIC")],
              !.o.ppRan = r.ran,
              !.o.ppFail = r.failAt,
              !.o.ppFailField = IF r.failAt > 0
                                THEN w.a.doc.fields[r.failAt] ELSE NoField,
              !.o.indexerAdd = IF r.rv = 0 THEN @ + 1 ELSE @,
              !.o.indexFail = IF r.rv = 0 /\ ~addOk THEN "add" ELSE @,
              !.holders = IF r.rv = 0 /\ addOk THEN @ \cup {"indexer"} ELSE @],
    thr)

\* Document_AddToIndexes whose cleanup leaves the status as it is
AddToIndexes_Submit_NoCode(w, r, thr, addOk) ==
  IF r.rv = 0 /\ addOk
  THEN [w EXCEPT !.a = r.a,
                 !.o.ppRan = r.ran,
                 !.o.indexerAdd = @ + 1,
                 !.holders = (@ \ {thr}) \cup {"indexer"}]
  ELSE AddDocumentCtx_Finish(
         [w EXCEPT !.a = r.a,
                   !.o.ppRan = r.ran,
                   !.o.ppFail = r.failAt,
                   !.o.ppFailField = IF r.failAt > 0
                                     THEN w.a.doc.fields[r.failAt] ELSE NoField,
                   !.o.indexerAdd = IF r.rv = 0 THEN @ + 1 ELSE @,
                   !.o.indexFail = IF r.rv = 0 THEN "add" ELSE @],
         thr)

\* document.c:521-531: Indexer_Add after a clean pass, AddDocumentCtx_Finish
\* after a failure; r is what the loop returned
AddToIndexes_Submit(w, r, thr, addOk) ==
  IF r.rv = 0 /\ addOk
  THEN [w EXCEPT !.a = r.a,
                 !.o.ppRan = r.ran,
                 !.o.indexerAdd = @ + 1,
                 !.o.addAllDone =
                    @ /\ { r.ran[j] : j \in 1..Len(r.ran) } = ResolvedPositions(r.a),
                 !.holders = (@ \ {thr}) \cup {"indexer"}]
  ELSE AddDocumentCtx_Finish(
         [w EXCEPT !.a = [r.a EXCEPT !.status = QueryError_SetCode(@, "EGENERIC")],
                   !.o.ppRan = r.ran,
                   !.o.ppFail = r.failAt,
                   !.o.ppFailField = IF r.failAt > 0
                                     THEN w.a.doc.fields[r.failAt] ELSE NoField,
                   !.o.indexerAdd = IF r.rv = 0 THEN @ + 1 ELSE @,
                   !.o.indexFail = IF r.rv = 0 THEN "add" ELSE @,
                   !.o.addAllDone =
                      @ /\ (r.rv = 0 =>
                              { r.ran[j] : j \in 1..Len(r.ran) } = ResolvedPositions(r.a))],
         thr)

\* The driver runs on thread thr over the context as it is
AddToIndexes_Enter(w, thr) ==
  [Touch(w, thr) EXCEPT
     !.o.ppBefore = @ \/ (w.o.branch = "reindex" /\ ~w.o.reattached)]

\* Document_AddToIndexes on thread thr (the loop's result r is one value,
\* computed once); addOk: Indexer_Add returns 0 and the
\* indexer keeps the context until it calls AddDocumentCtx_Finish
Document_AddToIndexes(w, thr, addOk) ==
  CHOOSE done \in { AddToIndexes_Submit(e, r, thr, addOk) :
                      e \in { AddToIndexes_Enter(w, thr) },
                      r \in { AddToIndexes_Fields(w.a, 1, << >>) } } : TRUE

\* ------------------------------------------------------------------------
\* Partial updates
\* ------------------------------------------------------------------------
\* What the document store holds for the key of a partial update: nothing
\* (exists = FALSE: the key was deleted), or the fields the request supplied,
\* which its caller saved before submitting, and at most one field stored
\* earlier under another name
StoredFields(supplied) ==
  { supplied } \cup
  { Append(supplied, c) : c \in { x \in FieldChoices :
       \A i \in 1..Len(supplied) : supplied[i].name # x.name } }

Stores(supplied) ==
  { [exists |-> FALSE, fields |-> << >>] }
    \cup { [exists |-> TRUE, fields |-> d] : d \in StoredFields(supplied) }

\* What the store may hold when the request is a no-save request, whose
\* caller did not save the supplied fields: a hash without any of them,
\* empty or with one field stored earlier under another name
UnsavedStores(supplied) ==
  IF supplied = << >> THEN {}
  ELSE { [exists |-> TRUE, fields |-> << >>] }
         \cup { [exists |-> TRUE, fields |-> << c >>] :
                  c \in { x \in FieldChoices :
                     \A i \in 1..Len(supplied) : supplied[i].name # x.name } }

\* The fields of seq whose name is in names, in order
RECURSIVE SelectFields(_, _)
SelectFields(seq, names) ==
  IF seq = << >> THEN << >>
  ELSE IF Head(seq).name \in names
       THEN << Head(seq) >> \o SelectFields(Tail(seq), names)
       ELSE SelectFields(Tail(seq), names)

\* Redis_LoadDocumentEx(sctx, key, toLoad, n, &doc, NULL): the stored values
\* of the requested fields, or an error when the key does not exist
Redis_LoadDocumentEx(store, toLoad) ==
  IF ~store.exists
  THEN [rv |-> "ERR", fields |-> << >>]
  ELSE [rv |-> "OK", fields |-> SelectFields(store.fields, toLoad)]

\* Only the fields the request supplied are asked for
ReplaceMerge_ToLoad_Supplied(a) ==
  { a.doc.fields[i].name : i \in 1..Len(a.doc.fields) } \cap SpecNames

\* The names AddDocumentCtx_ReplaceMerge asks for (document.c:217-222)
ReplaceMerge_ToLoad(a) == { SpecFields[k].name : k \in 1..Len(SpecFields) }

\* AddDocumentCtx_ReplaceMerge without the check of the load's result
ReplaceMerge_Loaded_Unchecked(w, ld, oldFieldCount) ==
  [w  |-> [w EXCEPT
             !.a = AddDocumentCtx_SetDocument(
                     w.a, [fields |-> ld.fields], oldFieldCount).a,
             !.o.loadDone = ld.rv = "OK",
             !.o.reattached = TRUE],
   rv |-> 0]

\* document.c:233-244: ld is what Redis_LoadDocumentEx returned
ReplaceMerge_Loaded(w, ld, oldFieldCount) ==
  IF ld.rv # "OK"
  THEN [w  |-> AddDocumentCtx_Free(
                 InvokeDoneCb(
                   [w EXCEPT !.a.status = QueryError_SetError(@, "ENODOC")],
                   "caller"),
                 "caller"),
        rv |-> 1]
  ELSE [w  |-> [w EXCEPT
                  !.a = AddDocumentCtx_SetDocument(
                          w.a, [fields |-> ld.fields], oldFieldCount).a,
                  !.o.loadDone = TRUE,
                  !.o.reattached = TRUE],
        rv |-> 0]

\* AddDocumentCtx_ReplaceMerge reading oldFieldCount after the load instead
\* of before the old fields are cleared
AddDocumentCtx_ReplaceMerge_CountAfterLoad(w, store) ==
  ReplaceMerge_Loaded(
    [w EXCEPT !.a.doc.fields = << >>,
              !.o.branch = "reindex",
              !.o.toLoad = ReplaceMerge_ToLoad(w.a)],
    Redis_LoadDocumentEx(store, ReplaceMerge_ToLoad(w.a)),
    Len(Redis_LoadDocumentEx(store, ReplaceMerge_ToLoad(w.a)).fields))

\* AddDocumentCtx_ReplaceMerge: [w, rv]
AddDocumentCtx_ReplaceMerge(w, store) ==
  ReplaceMerge_Loaded(
    [w EXCEPT !.a.doc.fields = << >>,
              !.o.branch = "reindex",
              !.o.toLoad = ReplaceMerge_ToLoad(w.a)],
    Redis_LoadDocumentEx(store, ReplaceMerge_ToLoad(w.a)),
    w.a.doc.numFields)

\* What DocTable_GetIdR / DocTable_Get find for the key: "nodoc" (docId == 0),
\* "nomd" (no metadata), or "ok" with the stored metadata.  payload: the
\* document carries a payload (doc->payload, which only this path reads)
MdStates ==
  { [score |-> "old", payload |-> FALSE, sortVector |-> NoSV],
    [score |-> "old", payload |-> FALSE, sortVector |-> NewSortingVector] }

Lookups ==
  { [found |-> "nodoc", md |-> NoMd, payload |-> FALSE],
    [found |-> "nomd", md |-> NoMd, payload |-> FALSE] }
    \cup { [found |-> "ok", md |-> m, payload |-> pl] : m \in MdStates, pl \in BOOLEAN }

\* The sortable loop of AddDocumentCtx_UpdateNoIndex (document.c:620-657)
\* from field i on: [md, err], err the reason of a BAIL or "none"
RECURSIVE UpdateNoIndex_Fields(_, _, _, _)
UpdateNoIndex_Fields(fields, i, dedupes, md) ==
  IF i > Len(fields)
  THEN [md |-> md, err |-> "none"]
  ELSE
    LET f == fields[i]
        k == IndexSpec_GetField(f.name)
    IN IF k = 0 \/ ~FieldSpec_IsSortable(SpecFields[k])
       THEN UpdateNoIndex_Fields(fields, i + 1, dedupes, md)
       ELSE IF k \in dedupes
       THEN [md |-> md, err |-> "dup"]
       ELSE
         LET idx == IndexSpec_GetFieldSortingIndex(f.name)
             md1 == IF ~md.sortVector.alloc
                    THEN [md EXCEPT !.sortVector = NewSortingVector] ELSE md
             put == [md1 EXCEPT !.sortVector = RSSortingVector_Put(@, idx)]
         IN IF idx < 0
            THEN UpdateNoIndex_Fields(fields, i + 1, dedupes \cup {k}, md)
            ELSE CASE SpecFields[k].type = "FULLTEXT" ->
                        UpdateNoIndex_Fields(fields, i + 1, dedupes \cup {k}, put)
                   [] SpecFields[k].type = "NUMERIC" ->
                        IF ~StringToDoubleOk(f.text)
                        THEN [md |-> md1, err |-> "parse"]
                        ELSE UpdateNoIndex_Fields(fields, i + 1, dedupes \cup {k}, put)
                   [] OTHER -> [md |-> md1, err |-> "type"]

\* BAIL(s): QueryError_SetError(&aCtx->status, QUERY_EGENERIC, s); goto done
UpdateNoIndex_Bail(w) ==
  [w EXCEPT !.a.status = QueryError_SetError(@, "EGENERIC")]

\* document.c:617-658: r is what the sortable loop returned
UpdateNoIndex_Sorted(w, before, r) ==
  IF r.err # "none"
  THEN UpdateNoIndex_Bail([w EXCEPT !.o.mdBefore = before, !.o.mdAfter = r.md,
                                    !.o.metaFail = r.err])
  ELSE [w EXCEPT !.o.mdBefore = before, !.o.mdAfter = r.md]

\* document.c:610-615: the score and the payload are written in place
UpdateNoIndex_Header(md, payload) ==
  [md EXCEPT !.score = "new", !.payload = IF payload THEN TRUE ELSE @]

\* document.c:600-658, up to the label done
UpdateNoIndex_Body(w, lookup) ==
  IF lookup.found \in {"nodoc", "nomd"}
  THEN UpdateNoIndex_Bail([w EXCEPT !.o.metaFail = lookup.found])
  ELSE UpdateNoIndex_Sorted(
         w, lookup.md,
         IF "SORTABLES" \in w.a.stateFlags
         THEN UpdateNoIndex_Fields(w.a.doc.fields, 1, {},
                                   UpdateNoIndex_Header(lookup.md, lookup.payload))
         ELSE [md |-> UpdateNoIndex_Header(lookup.md, lookup.payload), err |-> "none"])

\* AddDocumentCtx_UpdateNoIndex; every BAIL sets QUERY_EGENERIC
AddDocumentCtx_UpdateNoIndex(w, lookup) ==
  AddDocumentCtx_Free(
    InvokeDoneCb(UpdateNoIndex_Body([w EXCEPT !.o.branch = "meta"], lookup), "caller"),
    "caller")

\* handlePartialUpdate returning 0 after the metadata-only update
handlePartialUpdate_FallsThrough(w, env) ==
  IF "INDEXABLES" \in w.a.stateFlags
  THEN AddDocumentCtx_ReplaceMerge(w, env.store)
  ELSE [w |-> AddDocumentCtx_UpdateNoIndex(w, env.lookup), rv |-> 0]

\* handlePartialUpdate reindexing every partial update
handlePartialUpdate_AlwaysMerge(w, env) ==
  AddDocumentCtx_ReplaceMerge(w, env.store)

\* handlePartialUpdate: [w, rv]
handlePartialUpdate(w, env) ==
  IF "INDEXABLES" \in w.a.stateFlags
  THEN AddDocumentCtx_ReplaceMerge(w, env.store)
  ELSE [w |-> AddDocumentCtx_UpdateNoIndex(w, env.lookup), rv |-> 1]

\* ------------------------------------------------------------------------
\* The scheduler
\* ------------------------------------------------------------------------
AddDocumentCtx_IsBlockable(a) == "NOBLOCK" \notin a.stateFlags

\* document.c:271-279: the bytes that count towards the threshold
RECURSIVE Submit_TotalSize(_, _)
Submit_TotalSize(a, ii) ==
  IF ii > a.doc.numFields THEN 0
  ELSE (IF a.fspecs[ii] > 0 /\ SpecFields[a.fspecs[ii]].type \in {"FULLTEXT", "TAG"}
        THEN StringLen(a.doc.fields[ii].text) ELSE 0)
       + Submit_TotalSize(a, ii + 1)

\* The threshold compared with > instead of >=
Submit_RunsOnWorker_Strict(a, totalSize) ==
  totalSize > SELF_EXEC_THRESHOLD /\ AddDocumentCtx_IsBlockable(a)

\* document.c:281: hand the context to the worker pool?
Submit_RunsOnWorker(a, totalSize) ==
  totalSize >= SELF_EXEC_THRESHOLD /\ AddDocumentCtx_IsBlockable(a)

\* document.c:265-270: block the client of a blockable context
Submit_BlockClient(w) ==
  IF AddDocumentCtx_IsBlockable(w.a)
  THEN [w EXCEPT !.a.client = "bc", !.o.blocked = TRUE]
  ELSE [w EXCEPT !.a.client = "sctx"]

\* document.c:271-285: the scheduling decision
Submit_Schedule(w, addOk) ==
  IF Submit_RunsOnWorker(w.a, Submit_TotalSize(w.a, 1))
  THEN [w EXCEPT !.holders = (@ \ {"caller"}) \cup {"worker"},
                 !.o.atSched = TRUE,
                 !.o.schedBytes = TextAndTagBytes(w.a.doc.fields),
                 !.o.scheduled = TRUE]
  ELSE Document_AddToIndexes(
         [w EXCEPT !.o.atSched = TRUE,
                   !.o.schedBytes = TextAndTagBytes(w.a.doc.fields),
                   !.o.inlineRun = TRUE],
         "caller", addOk)

\* document.c:262-285: pu is what the partial-update stage returned
Submit_AfterPartial(pu, addOk) ==
  IF pu.rv # 0
  THEN pu.w
  ELSE Submit_Schedule(Submit_BlockClient(pu.w), addOk)

\* The request as the submitting thread enters AddDocumentCtx_Submit
Submit_Enter(w, options) ==
  [Touch(w, "caller") EXCEPT
     !.a.options = options,
     !.o.submitted = TRUE,
     !.o.partial = "PARTIAL" \in options,
     !.o.indexable = HasIndexableField(w.a.doc.fields),
     !.o.branch = IF "PARTIAL" \in options THEN @ ELSE "full"]

\* AddDocumentCtx_Submit on the calling thread.  env holds what the
\* collaborators answer: the document store, the metadata table, Indexer_Add
AddDocumentCtx_Submit(w, options, env) ==
  Submit_AfterPartial(
    IF "PARTIAL" \in options
    THEN handlePartialUpdate(Submit_Enter(w, options), env)
    ELSE [w |-> Submit_Enter(w, options), rv |-> 0],
    env.addOk)

\* What the submitting thread does with the context after the hand-off or
\* the inline completion (document.c:263, 282-286): nothing
Submit_TouchesAfter == FALSE

\* ------------------------------------------------------------------------
\* The state machine
\* ------------------------------------------------------------------------
VARIABLES
  aCtx,      \* the pooled RSAddDocumentCtx
  pool,      \* how many times the context is on the pool's free list
  holders,   \* the threads that hold the context and will act on it
  callerPc,  \* the submitting thread: "idle", "attached", "returning"
  obs,       \* observations of the current lifetime
  mp,        \* actxPool_g and the threads inside NewAddDocumentCtx
  plan       \* an AGGPlan: its step list and its mask of step types

vars == << aCtx, pool, holders, callerPc, obs, mp, plan >>

\* ------------------------------------------------------------------------
\* The global context pool under concurrent callers.  actxPool_g is 0 for
\* NULL, else the number of the mempool it points to; free[p] is the free
\* list of mempool p; each thread is at a statement of NewAddDocumentCtx
\* ("idle", "create", "get") or holds a context ("holding").
\* ------------------------------------------------------------------------
PoolThreads == {"t1", "t2", "t3"}

NoPool ==
  [ actxPool_g |-> 0,
    made       |-> 0,                                \* calls of mempool_new
    free       |-> [p \in 1..Cardinality(PoolThreads) |-> {}],
    allocated  |-> 0,                                \* contexts allocated
    pc         |-> [t \in PoolThreads |-> "idle"],
    held       |-> [t \in PoolThreads |-> 0] ]

\* mempool_new(16, allocDocumentContext, freeDocumentContext): a new, empty pool
mempool_new(m) == [m EXCEPT !.made = @ + 1]

\* mempool_get(p) for thread t: an entry of the free list, or a new context
\* from allocDocumentContext when the list is empty
mempool_get(m, t, c) ==
  IF c \in m.free[m.actxPool_g]
  THEN [m EXCEPT !.free[m.actxPool_g] = @ \ {c}, !.held[t] = c, !.pc[t] = "holding"]
  ELSE [m EXCEPT !.allocated = @ + 1, !.held[t] = c, !.pc[t] = "holding"]

\* if (!actxPool_g): the test of document.c:120
Pool_Test(t) ==
  /\ mp.pc[t] = "idle"
  /\ mp' = [mp EXCEPT !.pc[t] = IF mp.actxPool_g = 0 THEN "create" ELSE "get"]
  /\ UNCHANGED << aCtx, pool, holders, callerPc, obs, plan >>

\* actxPool_g = mempool_new(...): the assignment of document.c:121
Pool_Create(t) ==
  /\ mp.pc[t] = "create"
  /\ mp' = [mempool_new(mp) EXCEPT !.actxPool_g = mp.made + 1, !.pc[t] = "get"]
  /\ UNCHANGED << aCtx, pool, holders, callerPc, obs, plan >>

\* aCtx = mempool_get(actxPool_g): document.c:125
Pool_Get(t) ==
  /\ mp.pc[t] = "get"
  /\ \E c \in 1..MaxContexts :
       /\ \/ c \in mp.free[mp.actxPool_g]
          \/ mp.free[mp.actxPool_g] = {} /\ c = mp.allocated + 1
       /\ mp' = mempool_get(mp, t, c)
  /\ UNCHANGED << aCtx, pool, holders, callerPc, obs, plan >>

\* mempool_release(actxPool_g, aCtx) by the thread that ends up with the
\* context: document.c:142 and 316
Pool_Release(t) ==
  /\ mp.pc[t] = "holding"
  /\ mp' = [mp EXCEPT !.free[mp.actxPool_g] = @ \cup {mp.held[t]},
                      !.held[t] = 0,
                      !.pc[t] = "idle"]
  /\ UNCHANGED << aCtx, pool, holders, callerPc, obs, plan >>

PoolNext ==
  \E t \in PoolThreads :
     \/ Pool_Test(t)
     \/ Pool_Create(t)
     \/ Pool_Get(t)
     \/ Pool_Release(t)

\* ------------------------------------------------------------------------
\* The aggregation plan (aggregate_plan.c).  The steps of a plan are the
\* nodes of a circular doubly linked list whose head is plan->steps; node
\* StepsHead is that head, node FirstStep is plan->firstStep_s, the nodes
\* above it are the steps callers allocate, in the order of allocation.
\* next and prev hold the links of the nodes that were linked at least once
\* (dllist_insert writes both links of a node before anything reads them).
\* steptypes is the bit mask as the set of the types whose bit
\* 1 << (type - 1) is set.
\* ------------------------------------------------------------------------
MaxSteps == 3

StepsHead == 0

FirstStep == 1

\* The types of the steps callers add
StepTypes == {"GROUP", "FILTER", "APPLY", "ARRANGE"}

NoInsert == [op |-> "none", pos |-> StepsHead, new |-> StepsHead, before |-> << >>]

\* The plan object before AGPLN_Init
NoPlan ==
  [ inited    |-> FALSE,
    next      |-> << >>,
    prev      |-> << >>,
    type      |-> << >>,
    steptypes |-> {},
    made      |-> 0,           \* steps allocated by callers
    last      |-> NoInsert ]   \* the last AGPLN_AddBefore: its arguments and
                               \*   the step list before it

\* dllist_init(l): the empty list, the head linked to itself
dllist_init(p, l) ==
  [p EXCEPT !.next = [n \in {l} |-> l], !.prev = [n \in {l} |-> l]]

\* dllist_insert(prev, next, item): item is linked between prev and next
\*   item->next = next; item->prev = prev; next->prev = item; prev->next = item
dllist_insert(p, prev, next, item) ==
  LET dom == DOMAIN p.next \cup {item}
      n0  == [n \in dom |-> IF n \in DOMAIN p.next THEN p.next[n] ELSE n]
      p0  == [n \in dom |-> IF n \in DOMAIN p.prev THEN p.prev[n] ELSE n]
      n1  == [n0 EXCEPT ![item] = next]
      p1  == [p0 EXCEPT ![item] = prev]
      p2  == [p1 EXCEPT ![next] = item]
      n2  == [n1 EXCEPT ![prev] = item]
  IN [p EXCEPT !.next = n2, !.prev = p2]

\* dllist_append(list, item): item becomes the last node, before the head
dllist_append(p, list, item) == dllist_insert(p, p.prev[list], list, item)

\* PLN_IsReduce(stp)
PLN_IsReduce(t) == t \in {"GROUP", "DISTRIBUTE"}

\* A caller allocates a step of type t: [p, step]
NewStep(p, t) ==
  [p    |-> [p EXCEPT !.made = @ + 1,
                      !.type = [n \in DOMAIN p.type \cup {FirstStep + p.made + 1} |->
                                  IF n \in DOMAIN p.type THEN p.type[n] ELSE t]],
   step |-> FirstStep + p.made + 1]

\* AGPLN_AddStep(plan, step): the step goes to the end of the list and its
\* type into the mask
AGPLN_AddStep(p, step) ==
  [dllist_append(p, StepsHead, step) EXCEPT !.steptypes = @ \cup {p.type[step]}]

\* AGPLN_HasStep(pln, t) != 0
AGPLN_HasStep(p, t) == t \in p.steptypes

\* AGPLN_AddBefore(pln, posstp, newstp)
AGPLN_AddBefore(p, posstp, newstp) ==
  dllist_insert(p, p.prev[posstp], p.next[posstp], newstp)

\* AGPLN_Init(plan): memset, the empty list, then the root step appended;
\* the mask stays 0
AGPLN_Init(p) ==
  dllist_append(
    dllist_init([p EXCEPT !.inited = TRUE,
                          !.steptypes = {},
                          !.type = [n \in {FirstStep} |-> "ROOT"]],
                StepsHead),
    StepsHead, FirstStep)

\* The loop of AGPLN_GetArrangeStep from node nn backwards: the arrange step
\* found after the last reducer, or StepsHead when there is none
RECURSIVE GetArrangeStep_Scan(_, _)
GetArrangeStep_Scan(p, nn) ==
  IF nn = StepsHead THEN StepsHead
  ELSE IF PLN_IsReduce(p.type[nn]) THEN StepsHead
  ELSE IF p.type[nn] = "ARRANGE" THEN nn
  ELSE GetArrangeStep_Scan(p, p.prev[nn])

\* AGPLN_GetArrangeStep(pln): [p, step]
AGPLN_GetArrangeStep(p) ==
  IF GetArrangeStep_Scan(p, p.prev[StepsHead]) # StepsHead
  THEN [p |-> p, step |-> GetArrangeStep_Scan(p, p.prev[StepsHead])]
  ELSE [p    |-> AGPLN_AddStep(NewStep(p, "ARRANGE").p, NewStep(p, "ARRANGE").step),
        step |-> NewStep(p, "ARRANGE").step]

\* The steps met from node nn on, following next up to the head (the loop
\* of AGPLN_FindStep, AGPLN_FreeSteps and AGPLN_Dump)
RECURSIVE StepsFrom(_, _)
StepsFrom(p, nn) ==
  IF nn = StepsHead THEN << >>
  ELSE << nn >> \o StepsFrom(p, p.next[nn])

\* The step list walked from the head
PlanSteps(p) == StepsFrom(p, p.next[StepsHead])

Plan_Init ==
  /\ ~plan.inited
  /\ plan' = AGPLN_Init(plan)
  /\ UNCHANGED << aCtx, pool, holders, callerPc, obs, mp >>

Plan_AddStep ==
  /\ plan.inited
  /\ plan.made < MaxSteps
  /\ \E t \in StepTypes :
       plan' = [AGPLN_AddStep(NewStep(plan, t).p, NewStep(plan, t).step)
                  EXCEPT !.last = NoInsert]
  /\ UNCHANGED << aCtx, pool, holders, callerPc, obs, mp >>

\* A caller inserts a new step before a step it found in the plan
Plan_AddBefore ==
  /\ plan.inited
  /\ plan.made < MaxSteps
  /\ \E t \in StepTypes :
       \E i \in 1..Len(PlanSteps(plan)) :
          plan' = [AGPLN_AddBefore(NewStep(plan, t).p, PlanSteps(plan)[i],
                                   NewStep(plan, t).step)
                     EXCEPT !.last = [op     |-> "AddBefore",
                                      pos    |-> PlanSteps(plan)[i],
                                      new    |-> NewStep(plan, t).step,
                                      before |-> PlanSteps(plan)]]
  /\ UNCHANGED << aCtx, pool, holders, callerPc, obs, mp >>

Plan_GetArrangeStep ==
  /\ plan.inited
  /\ plan.made < MaxSteps
  /\ plan' = [AGPLN_GetArrangeStep(plan).p EXCEPT !.last = NoInsert]
  /\ UNCHANGED << aCtx, pool, holders, callerPc, obs, mp >>

PlanNext ==
  \/ Plan_Init
  \/ Plan_AddStep
  \/ Plan_AddBefore
  \/ Plan_GetArrangeStep

World == [a |-> aCtx, pool |-> pool, holders |-> holders, o |-> obs]

Becomes(w) ==
  /\ aCtx' = w.a
  /\ pool' = w.pool
  /\ holders' = w.holders
  /\ obs' = w.o
  /\ UNCHANGED << mp, plan >>

\* The context starts on the free list as allocDocumentContext left it
\* (mempool_get allocates one when the list is empty)
Init ==
  /\ aCtx = allocDocumentContext
  /\ pool = 1
  /\ holders = {}
  /\ callerPc = "idle"
  /\ obs = NoObs
  /\ mp = NoPool
  /\ plan = NoPlan

\* NewAddDocumentCtx ignoring what AddDocumentCtx_SetDocument returned
NewAddDocumentCtx_Attached_IgnoreRv(w, r, base) ==
  [w EXCEPT !.a = NewAddDocumentCtx_Finish(r.a), !.o.newRv = "ctx"]

\* document.c:139-165: r is what AddDocumentCtx_SetDocument returned
NewAddDocumentCtx_Attached(w, r, base) ==
  IF r.rv # 0
  THEN mempool_release(
         [w EXCEPT !.a = r.a, !.o.newRv = "NULL", !.o.newStatus = r.a.status,
                   !.o.rejectedDup = NamesFieldTwice(base.fields)],
         "caller")
  ELSE [w EXCEPT !.a = NewAddDocumentCtx_Finish(r.a), !.o.newRv = "ctx"]

\* NewAddDocumentCtx(sp, b, status)
NewAddDocumentCtx(w, base) ==
  NewAddDocumentCtx_Attached(
    [w EXCEPT !.pool = @ - 1, !.holders = @ \cup {"caller"}, !.o = NoObs],
    NewAddDocumentCtx_Attach(w.a, base),
    base)

\* The caller sets the completion callback on the context it was given
New_Returned(w) ==
  IF w.o.newRv = "ctx"
  THEN Becomes([w EXCEPT !.a.donecb = TRUE]) /\ callerPc' = "attached"
  ELSE Becomes(w) /\ callerPc' = "idle"

\* A caller obtains a context for a document
New ==
  /\ callerPc = "idle"
  /\ pool > 0
  /\ obs = NoObs
  /\ \E d \in Documents : New_Returned(NewAddDocumentCtx(World, [fields |-> d]))

\* The answers of the collaborators that the request's path can consult
SubmitEnvs(a, options) ==
  LET none == [store |-> [exists |-> FALSE, fields |-> << >>],
               lookup |-> [found |-> "nodoc", md |-> NoMd, payload |-> FALSE],
               addOk |-> TRUE]
  IN IF "PARTIAL" \notin options
     THEN { [none EXCEPT !.addOk = b] : b \in BOOLEAN }
     ELSE IF "INDEXABLES" \in a.stateFlags
     THEN { [none EXCEPT !.store = s, !.addOk = b] :
              s \in Stores(a.doc.fields)
                      \cup (IF "NOSAVE" \in options
                            THEN UnsavedStores(a.doc.fields) ELSE {}),
              b \in BOOLEAN }
     ELSE { [none EXCEPT !.lookup = l] : l \in Lookups }

\* The caller sets ACTX_F_NOBLOCK for a no-block request and calls
\* AddDocumentCtx_Submit
Submit_Caller(w, noblock) ==
  [w EXCEPT !.a.stateFlags = IF noblock THEN @ \cup {"NOBLOCK"} ELSE @,
            !.o.noblock = noblock]

Submit ==
  /\ callerPc = "attached"
  /\ \E options \in SUBSET {"PARTIAL", "NOSAVE"}, noblock \in BOOLEAN :
       \E env \in SubmitEnvs(aCtx, options) :
          Becomes(AddDocumentCtx_Submit(Submit_Caller(World, noblock), options, env))
  /\ callerPc' = "returning"

\* AddDocumentCtx_Submit returns to its caller
SubmitReturn ==
  /\ callerPc = "returning"
  /\ Becomes(IF Submit_TouchesAfter THEN Touch(World, "caller") ELSE World)
  /\ callerPc' = "idle"

\* threadCallback on a worker thread of CONCURRENT_POOL_INDEX
WorkerRun ==
  /\ "worker" \in holders
  /\ \E addOk \in BOOLEAN :
       \E w \in { Document_AddToIndexes(World, "worker", addOk) } : Becomes(w)
  /\ UNCHANGED callerPc

\* The indexer is done with the context it accepted; err: a bulk indexer
\* failed and set its error on the status
IndexerDone(w, err) ==
  AddDocumentCtx_Finish(
    [w EXCEPT !.a.status = IF err THEN QueryError_SetError(@, "EGENERIC") ELSE @,
              !.o.indexFail = IF err THEN "indexer" ELSE @],
    "indexer")

IndexerFinish ==
  /\ "indexer" \in holders
  /\ \E err \in BOOLEAN :
       \E w \in { IndexerDone(World, err) } : Becomes(w)
  /\ UNCHANGED callerPc

\* replyCallback on the main thread, once per unblock
replyCallback ==
  /\ "reply" \in holders
  /\ \E w \in { doReplyFinish(World, "reply") } : Becomes(w)
  /\ UNCHANGED callerPc

\* Observation only: the record of a finished lifetime is dropped before
\* the context is acquired again; the program's state is untouched
Forget ==
  /\ callerPc = "idle"
  /\ pool > 0
  /\ obs # NoObs
  /\ obs' = NoObs
  /\ UNCHANGED << aCtx, pool, holders, callerPc, mp, plan >>

Next ==
  \/ New
  \/ Forget
  \/ Submit
  \/ SubmitReturn
  \/ WorkerRun
  \/ IndexerFinish
  \/ replyCallback

Spec == Init /\ [][Next]_vars

\* Threads calling NewAddDocumentCtx and releasing what they got, with
\* nothing but the statements of document.c between them
PoolSpec == Init /\ [][PoolNext]_vars

\* A caller building one aggregation plan
PlanSpec == Init /\ [][PlanNext]_vars

\* The worker pool, the indexer and the host's reply dispatch each run the
\* work handed to them
FairSpec ==
  /\ Spec
  /\ WF_vars(SubmitReturn)
  /\ WF_vars(WorkerRun)
  /\ WF_vars(IndexerFinish)
  /\ WF_vars(replyCallback)

\* ------------------------------------------------------------------------
\* Properties
\* ------------------------------------------------------------------------

\* C1: the completion callback of a submitted context is invoked exactly
\* once: never twice, it has run when the context is back in the pool, and
\* a submitted context whose callback has not run yet gets it eventually
C1_CallbackExactlyOnce ==
  /\ [](obs.cbCount <= 1)
  /\ []((obs.submitted /\ pool > 0) => obs.cbCount = 1)
  /\ ((obs.submitted /\ obs.cbCount = 0) ~> (obs.cbCount = 1))

\* a context that went through a worker and the indexer was completed by
\* the reply callback
C1_Witness ==
  /\ obs.submitted /\ obs.scheduled /\ obs.indexerAdd = 1
  /\ obs.cbCount = 1 /\ obs.cbThread = "reply"

\* C2 as stated: no release, at any release site, without a callback before it
C2_EveryReleaseAfterCallback == ~obs.relNoCb

\* C2 as amended: a context that NewAddDocumentCtx returned to its caller is
\* never released without its callback having run; the only release that no
\* callback precedes is the one inside NewAddDocumentCtx after a failed
\* attachment, which returns NULL
C2_ReturnedContextReleasedAfterCallback ==
  /\ (obs.relNoCb => obs.newRv = "NULL" /\ ~obs.submitted)
  /\ (obs.newRv = "ctx" /\ obs.relCount > 0 => obs.cbCount >= 1)

C2_Witness ==
  /\ obs.newRv = "ctx" /\ obs.relCount = 1 /\ obs.relThread = "reply"
  /\ obs.cbCount = 1 /\ ~obs.relNoCb

\* C3: the context is in exactly one place (the pool or one thread), is
\* released at most once per lifetime, and no thread touches it while it is
\* in the pool or held by another thread
C3_OneOwner ==
  /\ ~obs.uaf
  /\ obs.relCount <= 1
  /\ pool + Cardinality(holders) = 1

\* the context is with a worker while the submitting thread has not yet
\* returned from AddDocumentCtx_Submit
C3_Witness == holders = {"worker"} /\ callerPc = "returning" /\ obs.scheduled

C5_ThresholdScheduling ==
  /\ (obs.submitted /\ (~obs.partial \/ (obs.branch = "reindex" /\ obs.loadDone))
        => obs.atSched)
  /\ (obs.atSched =>
        /\ obs.scheduled = (obs.schedBytes >= SELF_EXEC_THRESHOLD /\ ~obs.noblock)
        /\ obs.inlineRun = ~obs.scheduled)

\* a blockable request of exactly 1024 counted bytes went to a worker
C5_Witness ==
  obs.atSched /\ obs.scheduled /\ obs.schedBytes = SELF_EXEC_THRESHOLD

\* C6: a partial update without an indexable field takes the metadata-only
\* branch and one with an indexable field the reindex branch; the
\* metadata-only branch blocks nothing, schedules nothing, preprocesses and
\* indexes nothing, and has called back and released on the calling thread
\* by the time AddDocumentCtx_Submit is done
C6_MetadataOnly ==
  /\ (obs.submitted /\ obs.partial => obs.branch = IF obs.indexable THEN "reindex" ELSE "meta")
  /\ (obs.branch = "meta" =>
        /\ ~obs.blocked /\ ~obs.scheduled /\ ~obs.inlineRun /\ ~obs.atSched
        /\ obs.toLoad = {} /\ obs.unblocks = 0
        /\ obs.ppRan = << >> /\ obs.indexerAdd = 0
        /\ obs.cbCount = 1 /\ obs.cbThread = "caller"
        /\ obs.relCount = 1 /\ obs.relThread = "caller"
        /\ pool = 1 /\ holders = {})

C6_Witness ==
  obs.branch = "meta" /\ callerPc = "returning" /\ obs.cbStatus = "OK"

\* C7: a partial update with an indexable field asks the document store for
\* every schema field, and nothing is preprocessed, indexed or scheduled for
\* it before the reload and the re-attachment are done
C7_ReindexReloadsAll ==
  /\ (obs.submitted /\ obs.partial /\ obs.indexable => obs.toLoad = SpecNames)
  /\ ~obs.ppBefore
  /\ (obs.branch = "reindex"
        /\ (obs.ppRan # << >> \/ obs.indexerAdd > 0 \/ obs.scheduled \/ obs.atSched)
        => obs.loadDone /\ obs.reattached)

\* a reindexing update that supplied fewer fields than it reindexes
C7_Witness ==
  /\ obs.branch = "reindex" /\ obs.loadDone /\ obs.indexerAdd = 1
  /\ holders = {"indexer"} /\ Len(obs.ppRan) = 2 /\ aCtx.doc.numFields = 2
  /\ aCtx.cap = 2 /\ aCtx.stateFlags \cap {"TEXTINDEXED", "OTHERINDEXED"} # {}

\* C8: a reindexing update whose document cannot be loaded ends with
\* Missing-Document in the status its callback sees, callback then release,
\* with no client blocked, no worker, no preprocessor and no Indexer_Add
C8_MissingDocument ==
  (obs.branch = "reindex" /\ ~obs.loadDone) =>
     /\ obs.cbCount = 1 /\ obs.cbStatus = "ENODOC"
     /\ obs.relCount = 1 /\ ~obs.relNoCb /\ pool = 1 /\ holders = {}
     /\ ~obs.blocked /\ ~obs.scheduled /\ ~obs.inlineRun /\ obs.unblocks = 0
     /\ obs.ppRan = << >> /\ obs.indexerAdd = 0

C8_Witness ==
  obs.branch = "reindex" /\ ~obs.loadDone /\ obs.cbStatus = "ENODOC"

C10_AbortOnFirstError ==
  /\ obs.addAllDone
  /\ (obs.indexerAdd > 0 => obs.ppFail = 0)
  /\ (obs.ppFail > 0 =>
        /\ obs.indexerAdd = 0
        /\ obs.ppRan # << >>
        /\ obs.ppRan[Len(obs.ppRan)] = obs.ppFail
        /\ \A j \in 1..Len(obs.ppRan) : obs.ppRan[j] <= obs.ppFail
        /\ LET fs == SpecFields[IndexSpec_GetField(obs.ppFailField.name)]
               sv == IF obs.cbCount > 0 THEN obs.cbSv ELSE aCtx.sv
           IN FieldSpec_IsSortable(fs) => fs.sortIdx \notin sv.slots)

\* a sortable numeric field failed first and a resolved field after it was
\* left alone
C10_Witness ==
  /\ obs.ppFail = 1 /\ obs.ppFailField.name = "price"
  /\ holders = {"reply"} /\ aCtx.doc.numFields >= 2 /\ aCtx.fspecs[2] > 0
  /\ obs.ppRan = << 1 >>

\* Some step of the pipeline after the attachment failed in this lifetime
Erred ==
  \/ obs.ppFail > 0
  \/ obs.indexFail # "none"
  \/ obs.metaFail # "none"
  \/ (obs.branch = "reindex" /\ ~obs.loadDone)

\* C11 as stated: every error, the attachment errors included, reaches the
\* caller through a callback invoked with that status
C11_EveryErrorThroughCallback ==
  (obs.newStatus # "OK" \/ (Erred /\ pool > 0)) =>
     obs.cbCount >= 1 /\ obs.cbStatus # "OK"

\* C11 as amended: an attachment error is returned by NewAddDocumentCtx
\* through its status argument together with NULL, and no callback runs for
\* it; every error after a successful NewAddDocumentCtx is on the status the
\* callback is invoked with, and the callback sees an error only when a step
\* failed
C11_ErrorsAfterAttachmentThroughCallback ==
  /\ (obs.newStatus # "OK" =>
        obs.newRv = "NULL" /\ obs.cbCount = 0 /\ ~obs.submitted /\ ~Erred)
  /\ (obs.newRv = "NULL" => obs.newStatus # "OK")
  /\ (Erred => obs.newRv = "ctx" /\ obs.submitted)
  /\ (Erred /\ obs.cbCount = 0 => pool = 0 /\ aCtx.status # "OK")
  /\ (Erred /\ pool > 0 => obs.cbCount = 1 /\ obs.cbStatus # "OK")
  /\ (obs.cbCount > 0 /\ obs.cbStatus # "OK" => Erred)

\* Indexer_Add refused the context of a blockable request and the reply
\* callback delivered the error
C11_Witness ==
  /\ obs.indexFail = "add" /\ obs.ppFail = 0 /\ obs.cbCount = 1
  /\ obs.cbStatus = "EGENERIC" /\ obs.cbThread = "reply"

\* C12: in the metadata-only branch the callback sees Missing-Document when
\* the target document does not exist, Duplicate-Field for a second write to
\* one sort-vector slot and Unsupported-Type for a sortable field that is
\* neither full-text nor numeric
C12_MetadataOnlyTypedErrors ==
  (obs.branch = "meta" /\ obs.cbCount = 1) =>
     /\ (obs.metaFail = "nodoc" => obs.cbStatus = "ENODOC")
     /\ (obs.metaFail = "dup" => obs.cbStatus = "EDUPFIELD")
     /\ (obs.metaFail = "type" => obs.cbStatus = "EUNSUPPTYPE")

C14_SortVectorIffSortable ==
  (holders # {} /\ (callerPc = "attached" \/ obs.submitted)) =>
     (aCtx.sv.alloc <=> HasSortableField(aCtx.doc.fields))

\* C15: under every interleaving of threads acquiring and releasing, the
\* pool is created once, no context is with two threads at once or both held
\* and free, and every context that was released is on the free list of the
\* pool in use
C15_PoolSafe ==
  /\ mp.made <= 1
  /\ \A t \in PoolThreads : \A u \in PoolThreads :
        (t # u /\ mp.held[t] # 0) => mp.held[t] # mp.held[u]
  /\ \A t \in PoolThreads : \A p \in 1..Cardinality(PoolThreads) :
        mp.held[t] # 0 => mp.held[t] \notin mp.free[p]
  /\ \A c \in 1..mp.allocated :
        \/ \E t \in PoolThreads : mp.held[t] = c
        \/ mp.actxPool_g # 0 /\ c \in mp.free[mp.actxPool_g]

\* C16: AddDocumentCtx_Finish completes inline, on the calling thread, exactly
\* for a no-block context; for a blockable one it only unblocks the client,
\* once, and the callback and the release run in the reply callback; a
\* worker thread never invokes the callback and never releases
C16_FinishInlineIffNoBlock ==
  /\ obs.cbThread # "worker" /\ obs.relThread # "worker"
  /\ obs.unblocks <= 1
  /\ (obs.unblocks > 0 => ~obs.noblock /\ obs.blocked)
  /\ (holders = {"reply"} => obs.unblocks = 1 /\ obs.cbCount = 0 /\ obs.relCount = 0)
  /\ (obs.cbThread = "reply" =>
        obs.unblocks = 1 /\ obs.cbCount = 1 /\ obs.relThread = "reply")
  /\ (obs.cbThread = "indexer" =>
        obs.noblock /\ obs.unblocks = 0 /\ obs.relThread = "indexer")
  /\ (obs.cbThread = "caller" /\ obs.atSched =>
        obs.noblock /\ obs.unblocks = 0 /\ obs.relThread = "caller")
  /\ (obs.noblock /\ obs.submitted => obs.unblocks = 0 /\ "reply" \notin holders)
  /\ (obs.atSched /\ ~obs.noblock /\ obs.cbCount > 0 => obs.cbThread = "reply")
  /\ (obs.scheduled => obs.cbThread \in {"none", "reply"})

\* a worker whose preprocessing failed has unblocked the client and left the
\* callback and the release to the reply callback
C16_Witness ==
  /\ obs.scheduled /\ obs.ppFail > 0 /\ holders = {"reply"}
  /\ obs.unblocks = 1 /\ obs.cbCount = 0 /\ pool = 0

C18_CapacityNeverShrinks == [][aCtx'.cap >= aCtx.cap]_vars

\* C19: while a submitted request is in the pipeline, its context has no
\* byte offsets if the request was submitted with no-save, and has them if
\* it was submitted without no-save, the schema stores byte offsets and the
\* document has an indexable full-text field
C19_OffsetsFollowOwnNoSave ==
  (holders # {} /\ obs.submitted) =>
     /\ ("NOSAVE" \in aCtx.options => ~aCtx.byteOffsets)
     /\ ("NOSAVE" \notin aCtx.options /\ StoreByteOffsets
           /\ HasIndexableText(aCtx.doc.fields) => aCtx.byteOffsets)

C21_SummaryFlagsDescribeAttached ==
  (pool = 0 /\ ("worker" \in holders \/ "indexer" \in holders)) =>
     /\ ("TEXTINDEXED" \in aCtx.stateFlags <=> ~HasIndexableText(aCtx.doc.fields))
     /\ ("OTHERINDEXED" \in aCtx.stateFlags <=>
           "OTHERINDEXED" \in DocumentFlags(aCtx.doc.fields))

\* C22: a metadata-only partial update that ends with an error of its
\* sortable loop (a numeric value that does not parse, an unsupported
\* sortable type, a duplicate sortable field) leaves the score, the payload
\* and the sort vector of the document's metadata as they were before
C22_MetadataAllOrNothing ==
  (obs.branch = "meta" /\ obs.cbCount = 1
     /\ obs.metaFail \in {"parse", "type", "dup"}) =>
     obs.mdAfter = obs.mdBefore

\* C23: on one pooled context, after any sequence of acquire, attach,
\* re-attach of the reindex branch and release, the allocated capacity of
\* the scratch arrays fspecs and fdatas is at least the field count of the
\* attached document, so every index below numFields that the attachment,
\* the scheduler or Document_AddToIndexes uses is within the allocation
C23_ScratchArraysCoverDocument ==
  /\ \A i \in 1..aCtx.doc.numFields : i <= aCtx.cap
  /\ (pool = 0 =>
        /\ Len(aCtx.fspecs) = aCtx.doc.numFields
        /\ Len(aCtx.fdatas) = aCtx.doc.numFields)

\* the reindex branch re-attached a reloaded document of more than one
\* field, the arrays were resized to it, and the driver has walked all its
\* fields and handed the context to the indexer
C23_Witness ==
  /\ obs.reattached /\ "indexer" \in holders /\ pool = 0
  /\ aCtx.doc.numFields >= 2 /\ aCtx.cap = aCtx.doc.numFields
  /\ Len(obs.ppRan) = aCtx.doc.numFields

\* C24: AGPLN_AddBefore(plan, pos, new) inserts new immediately before pos
\* and removes nothing: the step list walked from the head is the list
\* before the call with new placed directly before pos, and the forward and
\* backward links agree
C24_AddBeforeInsertsBeforePos ==
  plan.last.op = "AddBefore" =>
    LET before == plan.last.before
        i == CHOOSE j \in 1..Len(before) : before[j] = plan.last.pos
    IN /\ PlanSteps(plan) =
            SubSeq(before, 1, i - 1) \o << plan.last.new >>
              \o SubSeq(before, i, Len(before))
       /\ \A n \in {StepsHead} \cup { PlanSteps(plan)[j] : j \in 1..Len(PlanSteps(plan)) } :
             plan.prev[plan.next[n]] = n /\ plan.next[plan.prev[n]] = n

\* C25: after AGPLN_Init and any sequence of AGPLN_AddStep, AGPLN_AddBefore
\* and AGPLN_GetArrangeStep, AGPLN_HasStep(plan, t) is non-zero exactly when
\* the step list holds a step of type t that one of those calls added
C25_HasStepIffListHoldsType ==
  plan.inited =>
    \A t \in StepTypes \cup {"ROOT"} :
       AGPLN_HasStep(plan, t) <=>
         \E j \in 1..Len(PlanSteps(plan)) :
            PlanSteps(plan)[j] # FirstStep /\ plan.type[PlanSteps(plan)[j]] = t

====
